---- MODULE Spec2Model ----
(***************************************************************************)
(* Model of Exam.py: one run of main().  WeatherForecast.fetch_data gets    *)
(* the API payload and hands its 'list' to _process_forecasts, which groups *)
(* the forecasts by local day in WeatherData aggregators; generate_report   *)
(* builds the report from them.                                             *)
(*                                                                          *)
(* Units.  Temperatures are tenths of a degree Celsius, precipitation is in *)
(* hundredths of a millimetre, rounded report values are tenths of a        *)
(* millimetre.  A date string 'YYYY-MM-DD' is the sequence of its character *)
(* codes.  An optional value (a dict key that may be missing) is <<>> when  *)
(* missing and <<v>> when present.  Sums and differences of these decimal   *)
(* quantities are exact.                                                    *)
(***************************************************************************)
EXTENDS Integers, Sequences, FiniteSets, TLC

\* ------------------------------------------------------------------ bounds

\* Longest 'list' of forecasts a payload carries in the model.
MaxForecasts == 3

\* ------------------------------------------------------- dates and strings

\* datetime.now() of the run: 2024-12-30 10:00:00 UTC, as seconds since epoch.
NowTs == 1735552800

\* UTC offset of the process's local timezone, in seconds (CET).
TZOffset == 3600

\* Character codes of '-' and '0'.
Dash == 45
Zero == 48

\* Years, months and days of the civil date of a day number (days since
\* 1970-01-01), as datetime.fromtimestamp computes it (proleptic Gregorian).
CivilFromDays(days) ==
    LET z   == days + 719468
        era == z \div 146097
        doe == z - era * 146097
        yoe == (doe - doe \div 1460 + doe \div 36524 - doe \div 146096) \div 365
        doy == doe - (365 * yoe + yoe \div 4 - yoe \div 100)
        mp  == (5 * doy + 2) \div 153
        d   == doy - (153 * mp + 2) \div 5 + 1
        m   == IF mp < 10 THEN mp + 3 ELSE mp - 9
        y   == yoe + era * 400 + (IF m <= 2 THEN 1 ELSE 0)
    IN  [year |-> y, month |-> m, day |-> d]

\* The character of the decimal digit of n at the place p (1, 10, 100, ...).
DigitChar(n, p) == Zero + ((n \div p) % 10)

\* strftime('%Y-%m-%d'): zero-padded fields separated by '-'.
Strftime(c) ==
    << DigitChar(c.year, 1000), DigitChar(c.year, 100),
       DigitChar(c.year, 10), DigitChar(c.year, 1),
       Dash,
       DigitChar(c.month, 10), DigitChar(c.month, 1),
       Dash,
       DigitChar(c.day, 10), DigitChar(c.day, 1) >>

\* datetime.fromtimestamp(ts).strftime('%Y-%m-%d'): the local calendar date.
DateStr(ts) == Strftime(CivilFromDays((ts + TZOffset) \div 86400))

\* Python's < on two strings: lexicographic on the character codes.
RECURSIVE StrLess(_, _)
StrLess(a, b) ==
    IF b = <<>> THEN FALSE
    ELSE IF a = <<>> THEN TRUE
    ELSE IF a[1] # b[1] THEN a[1] < b[1]
    ELSE StrLess(Tail(a), Tail(b))

\* str.upper() on the country codes of the model.
Upper(s) == CASE s = "fr" -> "FR" [] s = "us" -> "US" [] OTHER -> s

\* ------------------------------------------------------------- WeatherData

Abs(x) == IF x < 0 THEN 0 - x ELSE x

Max(a, b) == IF a >= b THEN a ELSE b

\* round(x, 1) of a non-negative amount x given in hundredths; the result is
\* in tenths.  Python rounds to the nearest tenth, a tie going to the even
\* neighbour; the amounts of the model are even numbers of hundredths, which
\* are never on a tie.
Round1(x) ==
    LET q == x \div 10
        r == x % 10
    IN  IF r < 5 THEN q
        ELSE IF r > 5 THEN q + 1
        ELSE IF q % 2 = 0 THEN q ELSE q + 1

\* WeatherData.__init__
WeatherData(date) ==
    [date |-> date, rain_mm |-> 0, snow_mm |-> 0, transitions |-> 0,
     samples |-> <<>>]

\* Threshold of the temperature change of a major transition: 3 degrees.
TransitionThreshold == 30

PrevSampleFirst(samples) == samples[1]

\* self.samples[-1]
PrevSample(samples) == samples[Len(samples)]

IsMajorTransitionInclusive(samples, temp, weather_main) ==
    /\ samples # <<>>
    /\ weather_main # PrevSample(samples)[2]
    /\ Abs(temp - PrevSample(samples)[1]) >= TransitionThreshold

\* The test of add_sample: a previous sample exists, the category changed
\* and the temperature moved by more than 3 degrees.
IsMajorTransition(samples, temp, weather_main) ==
    /\ samples # <<>>
    /\ LET prev_temp    == PrevSample(samples)[1]
           prev_weather == PrevSample(samples)[2]
           temp_change    == Abs(temp - prev_temp)
           weather_change == weather_main # prev_weather
       IN  weather_change /\ temp_change > TransitionThreshold

add_sample_rounding(wd, temp, weather_main, rain, snow) ==
    [wd EXCEPT
       !.rain_mm = 10 * Round1(@ + rain),
       !.snow_mm = 10 * Round1(@ + snow),
       !.transitions =
           IF IsMajorTransition(wd.samples, temp, weather_main)
           THEN @ + 1 ELSE @,
       !.samples = Append(@, <<temp, weather_main>>)]

\* WeatherData.add_sample
add_sample(wd, temp, weather_main, rain, snow) ==
    [wd EXCEPT
       !.rain_mm = @ + rain,
       !.snow_mm = @ + snow,
       !.transitions =
           IF IsMajorTransition(wd.samples, temp, weather_main)
           THEN @ + 1 ELSE @,
       !.samples = Append(@, <<temp, weather_main>>)]

\* WeatherData.to_dict
to_dict(wd) ==
    [date_local |-> wd.date,
     rain_cumul_mm |-> Round1(wd.rain_mm),
     snow_cumul_mm |-> Round1(wd.snow_mm),
     major_transitions_count |-> wd.transitions]

\* ------------------------------------------------------- forecast records

\* Whether an optional value is present.
Has(x) == x # <<>>

\* One record of the payload's 'list'.  dt: the 'dt' key.  main: the 'main'
\* dict, itself with optional 'temp' and 'humidity'.  weather: the 'weather'
\* list (<<>>: key missing; << <<>> >>: an empty list; << <<w>> >>: a list
\* whose first element is the dict w with an optional 'main').  rain, snow:
\* the 'rain' and 'snow' dicts with an optional '3h'.
Forecast(dt, temp, weather_main, humidity, rain, snow) ==
    [dt |-> <<dt>>,
     main |-> <<[temp |-> <<temp>>, humidity |-> <<humidity>>]>>,
     weather |-> << <<[main |-> <<weather_main>>]>> >>,
     rain |-> rain,
     snow |-> snow]

\* Timestamps of the forecasts: 2024-12-30 21:00 UTC (the current local
\* day), 2024-12-31 12:00 UTC, 2025-01-01 00:00 UTC and 2025-01-02 09:00 UTC.
DtToday == NowTs + 39600
DtDay1 == NowTs + 93600
DtDay2 == NowTs + 136800
DtDay3 == NowTs + 255600

\* A 'rain' or 'snow' value: the key missing, a dict without '3h', or a
\* dict with the amount of the last three hours.
NoKey == <<>>
No3h == << <<>> >>
Amount(x) == << <<x>> >>

\* A well-formed record that every family of inputs is built around.
Plain(dt) == Forecast(dt, 200, "Clear", 40, NoKey, NoKey)

\* Records that make _process_forecasts raise: KeyError on 'dt', 'main',
\* 'temp', 'weather', the first weather's 'main' and 'humidity'.
KeyErrorRecords ==
    { [Plain(DtDay1) EXCEPT !.dt = <<>>],
      [Plain(DtDay1) EXCEPT !.main = <<>>],
      [Plain(DtDay2) EXCEPT !.main = <<[temp |-> <<>>, humidity |-> <<40>>]>>],
      [Plain(DtDay1) EXCEPT !.weather = <<>>],
      [Plain(DtDay1) EXCEPT !.weather = << <<[main |-> <<>>]>> >>],
      [Plain(DtDay2) EXCEPT !.main = <<[temp |-> <<200>>, humidity |-> <<>>]>>] }

\* A record whose 'weather' list is empty: weather[0] raises IndexError.
IndexErrorRecords == { [Plain(DtDay1) EXCEPT !.weather = << <<>> >>] }

\* A record of the current day that lacks 'main': it is skipped before the
\* key is read.
TodayIncomplete == [Plain(DtToday) EXCEPT !.main = <<>>]

\* Inputs of the general runs: the day, the humidity and the rain vary.
Records ==
    { Forecast(dt, 200, "Clear", h, r, NoKey) :
        dt \in {DtToday, DtDay1, DtDay2, DtDay3}, h \in {40, 90},
        r \in {NoKey, Amount(4)} }
    \cup {TodayIncomplete} \cup KeyErrorRecords \cup IndexErrorRecords

\* Inputs of the runs about transitions: temperature and category vary.
TransitionRecords ==
    { Forecast(dt, t, w, 40, NoKey, NoKey) :
        dt \in {DtDay1, DtDay2}, t \in {200, 230, 231},
        w \in {"Clear", "Rain"} }
    \cup {Plain(DtToday)} \cup KeyErrorRecords \cup IndexErrorRecords

\* Inputs of the runs about precipitation: rain and snow vary.
PrecipRecords ==
    { Forecast(dt, 200, "Clear", 40, r, s) :
        dt \in {DtDay1, DtDay2}, r \in {NoKey, No3h, Amount(4)},
        s \in {NoKey, Amount(6)} }
    \cup {Forecast(DtToday, 200, "Clear", 40, Amount(4), Amount(6))}
    \cup KeyErrorRecords \cup IndexErrorRecords

\* ------------------------------------------------------ _process_forecasts

\* Position of the aggregator of a date in daily_data, 0 when there is none.
\* daily_data is the dict {date: WeatherData} in insertion order, as the
\* sequence of its values.
IndexOfDate(dd, date) ==
    IF \E i \in 1..Len(dd) : dd[i].date = date
    THEN CHOOSE i \in 1..Len(dd) : dd[i].date = date
    ELSE 0

IsCurrentDayNever(date_str, today) == FALSE

\* date_str == today_str
IsCurrentDay(date_str, today) == date_str = today

\* forecast.get(key, {}).get('3h', 0.0)
GetPrecip(p) == IF Has(p) /\ Has(p[1]) THEN p[1][1] ELSE 0

\* One iteration of the loop of _process_forecasts on the forecast f: the
\* new daily_data and max_humidity, and how the iteration ended.
ProcessOne(dd, mh, f, today) ==
    IF ~Has(f.dt) THEN [daily_data |-> dd, max_humidity |-> mh, raised |-> "KeyError"]
    ELSE
    LET date_str == DateStr(f.dt[1])
        dd1 == IF IndexOfDate(dd, date_str) = 0
               THEN Append(dd, WeatherData(date_str)) ELSE dd
        i == IndexOfDate(dd1, date_str)
        Raise(e) == [daily_data |-> dd1, max_humidity |-> mh, raised |-> e]
    IN  IF IsCurrentDay(date_str, today)
        THEN [daily_data |-> dd, max_humidity |-> mh, raised |-> "none"]
        ELSE IF ~Has(f.main) THEN Raise("KeyError")
        ELSE IF ~Has(f.main[1].temp) THEN Raise("KeyError")
        ELSE IF ~Has(f.weather) THEN Raise("KeyError")
        ELSE IF ~Has(f.weather[1]) THEN Raise("IndexError")
        ELSE IF ~Has(f.weather[1][1].main) THEN Raise("KeyError")
        ELSE IF ~Has(f.main[1].humidity) THEN Raise("KeyError")
        ELSE
        LET temp == f.main[1].temp[1]
            weather_main == f.weather[1][1].main[1]
            humidity == f.main[1].humidity[1]
            rain == GetPrecip(f.rain)
            snow == GetPrecip(f.snow)
        IN  [daily_data |->
                 [dd1 EXCEPT ![i] = add_sample(@, temp, weather_main, rain, snow)],
             max_humidity |-> Max(mh, humidity),
             raised |-> "none"]

\* --------------------------------------------------------- generate_report

\* sum(day.rain_mm for day in self.daily_data.values()), and the same sum
\* of another field.
RECURSIVE SumRain(_)
SumRain(dd) == IF dd = <<>> THEN 0 ELSE dd[1].rain_mm + SumRain(Tail(dd))

RECURSIVE SumSnow(_)
SumSnow(dd) == IF dd = <<>> THEN 0 ELSE dd[1].snow_mm + SumSnow(Tail(dd))

\* Insertion of one aggregator in a sequence sorted by date, after the
\* entries that are not greater (sorted() is stable).
RECURSIVE InsertByDate(_, _)
InsertByDate(sorted, wd) ==
    IF sorted = <<>> THEN <<wd>>
    ELSE IF StrLess(wd.date, sorted[1].date) THEN <<wd>> \o sorted
    ELSE <<sorted[1]>> \o InsertByDate(Tail(sorted), wd)

RECURSIVE SortFrom(_, _)
SortFrom(sorted, rest) ==
    IF rest = <<>> THEN sorted
    ELSE SortFrom(InsertByDate(sorted, rest[1]), Tail(rest))

SortedByDateUnsorted(dd) == dd

\* sorted(self.daily_data.values(), key=lambda x: x.date)
SortedByDate(dd) == SortFrom(<<>>, dd)

RECURSIVE SumRoundedRain(_)
SumRoundedRain(dd) ==
    IF dd = <<>> THEN 0
    ELSE 10 * Round1(dd[1].rain_mm) + SumRoundedRain(Tail(dd))

RECURSIVE SumRoundedSnow(_)
SumRoundedSnow(dd) ==
    IF dd = <<>> THEN 0
    ELSE 10 * Round1(dd[1].snow_mm) + SumRoundedSnow(Tail(dd))

PeriodTotalsOfRounded(dd) ==
    [rain |-> Round1(SumRoundedRain(dd)), snow |-> Round1(SumRoundedSnow(dd))]

\* round(total_rain, 1) and round(total_snow, 1)
PeriodTotals(dd) ==
    [rain |-> Round1(SumRain(dd)), snow |-> Round1(SumSnow(dd))]

\* The report dictionary of generate_report.
BuildReport(dd, mh, name, ctry) ==
    [forecast_location_name |-> name,
     country_code |-> Upper(ctry),
     total_rain_period_mm |-> PeriodTotals(dd).rain,
     total_snow_period_mm |-> PeriodTotals(dd).snow,
     max_humidity_period |-> mh,
     forecast_details |->
         [i \in 1..Len(dd) |-> to_dict(SortedByDate(dd)[i])]]

\* ------------------------------------------------------------------- state

VARIABLES
    pc,              \* where main is: "start", "processing", "returned", "done"
    country,         \* WeatherForecast.country
    location_name,   \* WeatherForecast.location_name
    daily_data,      \* WeatherForecast.daily_data
    max_humidity,    \* WeatherForecast.max_humidity
    today_str,       \* today_str of _process_forecasts, "" before it runs
    n_forecasts,     \* len(forecasts) of the list being processed
    forecasts,       \* the forecasts the loop has taken from the list so far
    fetch_result,    \* what fetch_data returned: "none", "true", "false"
    report,          \* the report written to the output file, if any
    reports_written, \* how many times the output file was written
    exit_status      \* the exit status of the process, once it has ended

vars ==
    <<pc, country, location_name, daily_data, max_humidity, today_str,
      n_forecasts, forecasts, fetch_result, report, reports_written,
      exit_status>>

\* main after WeatherForecast(api_key, city, country).
Init ==
    /\ pc = "start"
    /\ country = "fr"
    /\ location_name = ""
    /\ daily_data = <<>>
    /\ max_humidity = 0
    /\ today_str = <<>>
    /\ n_forecasts = 0
    /\ forecasts = <<>>
    /\ fetch_result = "none"
    /\ report = <<>>
    /\ reports_written = 0
    /\ exit_status = <<>>

\* ----------------------------------------------------------------- actions

\* fetch_data: requests.get, raise_for_status or response.json raises a
\* RequestException; fetch_data returns False.
FetchRequestFails ==
    /\ pc = "start"
    /\ pc' = "returned"
    /\ fetch_result' = "false"
    /\ UNCHANGED <<country, location_name, daily_data, max_humidity, today_str,
                   n_forecasts, forecasts, report, reports_written, exit_status>>

\* fetch_data: the payload lacks 'city' or its 'name' (location_name is not
\* set), or it lacks 'list' (location_name is set); fetch_data returns False.
FetchKeyError ==
    /\ pc = "start"
    /\ pc' = "returned"
    /\ fetch_result' = "false"
    /\ \E name \in {"", "Paris"} : location_name' = name
    /\ UNCHANGED <<country, daily_data, max_humidity, today_str,
                   n_forecasts, forecasts, report, reports_written, exit_status>>

\* fetch_data sets location_name and calls _process_forecasts(data['list']),
\* which computes today_str before its loop.
FetchProcess ==
    /\ pc = "start"
    /\ pc' = "processing"
    /\ location_name' = "Paris"
    /\ today_str' = DateStr(NowTs)
    /\ \E n \in 0..MaxForecasts : n_forecasts' = n
    /\ UNCHANGED <<country, daily_data, max_humidity, forecasts, fetch_result,
                   report, reports_written, exit_status>>

\* One iteration of the loop on the next forecast of the list.  A KeyError
\* is caught by fetch_data, which returns False; an IndexError is caught
\* nowhere and ends the process with a traceback and exit status 1.
ProcessForecast(R) ==
    /\ pc = "processing"
    /\ Len(forecasts) < n_forecasts
    /\ \E f \in R :
         LET r == ProcessOne(daily_data, max_humidity, f, today_str)
         IN  /\ forecasts' = Append(forecasts, f)
             /\ daily_data' = r.daily_data
             /\ max_humidity' = r.max_humidity
             /\ pc' = CASE r.raised = "none" -> "processing"
                        [] r.raised = "KeyError" -> "returned"
                        [] OTHER -> "done"
             /\ fetch_result' = IF r.raised = "KeyError" THEN "false"
                                ELSE fetch_result
             /\ exit_status' = IF r.raised = "IndexError" THEN <<1>>
                               ELSE exit_status
    /\ UNCHANGED <<country, location_name, today_str, n_forecasts, report,
                   reports_written>>

\* The loop is over: _process_forecasts returns and fetch_data returns True.
ProcessEnd ==
    /\ pc = "processing"
    /\ Len(forecasts) = n_forecasts
    /\ pc' = "returned"
    /\ fetch_result' = "true"
    /\ UNCHANGED <<country, location_name, daily_data, max_humidity, today_str,
                   n_forecasts, forecasts, report, reports_written, exit_status>>

generate_report_in_place ==
    /\ report' = <<BuildReport(daily_data, max_humidity, location_name, country)>>
    /\ reports_written' = reports_written + 1
    /\ daily_data' =
         [i \in 1..Len(daily_data) |->
            [daily_data[i] EXCEPT !.rain_mm = 10 * Round1(@),
                                  !.snow_mm = 10 * Round1(@)]]
    /\ UNCHANGED <<max_humidity, location_name, country>>

\* generate_report: builds the report and writes it to the output file.
generate_report ==
    /\ report' = <<BuildReport(daily_data, max_humidity, location_name, country)>>
    /\ reports_written' = reports_written + 1
    /\ UNCHANGED <<daily_data, max_humidity, location_name, country>>

\* main: fetch_data returned True; the report is generated and main ends.
MainReport ==
    /\ pc = "returned"
    /\ fetch_result = "true"
    /\ generate_report
    /\ pc' = "done"
    /\ exit_status' = <<0>>
    /\ UNCHANGED <<today_str, n_forecasts, forecasts, fetch_result>>

MainExitAfterReport ==
    /\ pc = "returned"
    /\ fetch_result = "false"
    /\ generate_report
    /\ pc' = "done"
    /\ exit_status' = <<1>>
    /\ UNCHANGED <<today_str, n_forecasts, forecasts, fetch_result>>

\* main: fetch_data returned False; exit(1).
MainExit ==
    /\ pc = "returned"
    /\ fetch_result = "false"
    /\ pc' = "done"
    /\ exit_status' = <<1>>
    /\ UNCHANGED <<country, location_name, daily_data, max_humidity, today_str,
                   n_forecasts, forecasts, fetch_result, report, reports_written>>

ProcessGeneral == ProcessForecast(Records)

ProcessTransitions == ProcessForecast(TransitionRecords)

ProcessPrecip == ProcessForecast(PrecipRecords)

Next ==
    \/ FetchRequestFails
    \/ FetchKeyError
    \/ FetchProcess
    \/ ProcessGeneral
    \/ ProcessEnd
    \/ MainReport
    \/ MainExit

NextTransitions ==
    \/ FetchRequestFails
    \/ FetchKeyError
    \/ FetchProcess
    \/ ProcessTransitions
    \/ ProcessEnd
    \/ MainReport
    \/ MainExit

NextPrecip ==
    \/ FetchRequestFails
    \/ FetchKeyError
    \/ FetchProcess
    \/ ProcessPrecip
    \/ ProcessEnd
    \/ MainReport
    \/ MainExit

\* Runs whose forecasts vary in day, humidity and rain.
Spec == Init /\ [][Next]_vars

\* Runs whose forecasts vary in temperature and weather category.
SpecTransitions == Init /\ [][NextTransitions]_vars

\* Runs whose forecasts vary in rain and snow.
SpecPrecip == Init /\ [][NextPrecip]_vars

\* ------------------------------------------------- vocabulary of the claims

\* The forecast is dated the current local day.
DatedToday(f) == Has(f.dt) /\ DateStr(f.dt[1]) = today_str

\* The forecast has every key the loop reads.
Complete(f) ==
    /\ Has(f.dt)
    /\ Has(f.main) /\ Has(f.main[1].temp) /\ Has(f.main[1].humidity)
    /\ Has(f.weather) /\ Has(f.weather[1]) /\ Has(f.weather[1][1].main)

\* The forecast is one the loop aggregates: complete and not of today.
Aggregated(f) == Complete(f) /\ ~DatedToday(f)

\* What a forecast's 'rain' or 'snow' value adds: its '3h' amount, or 0
\* when the key or the amount is missing.
Contribution(p) == IF p = NoKey \/ p = No3h THEN 0 ELSE p[1][1]

\* The last element of a non-empty sequence.
Last(seq) == seq[Len(seq)]

\* A failure of the run after the loop started on some forecast.
Failed == fetch_result = "false" \/ exit_status = <<1>>

\* The aggregator of daily_data at position j before the step and after
\* it; an aggregator created by the step was a fresh WeatherData before.
Before(j) ==
    IF j <= Len(daily_data) THEN daily_data[j]
    ELSE WeatherData(daily_data'[j].date)

\* A sample is quiet after prev: same category, temperature within 3.0.
Quiet(s, prev) == s[2] = prev[2] /\ Abs(s[1] - prev[1]) <= 30

\* ---------------------------------------------------------------------- C1

\* C1: every add_sample raises transitions by exactly 1 when the day has a
\* previous sample, the category differs from that sample's and the
\* temperature differs from it by more than 3 degrees, and leaves it
\* unchanged otherwise (first sample, same category, or a change of at most
\* 3 degrees); an aggregator that gets no sample keeps its count.
C1_TransitionRule ==
    [][\A j \in 1..Len(daily_data') :
         LET old == Before(j)
             new == daily_data'[j]
         IN  IF Len(new.samples) = Len(old.samples) + 1
             THEN LET s == Last(new.samples)
                      major ==
                        /\ old.samples # <<>>
                        /\ s[2] # Last(old.samples)[2]
                        /\ Abs(s[1] - Last(old.samples)[1]) > 30
                  IN  /\ SubSeq(new.samples, 1, Len(old.samples)) = old.samples
                      /\ new.transitions =
                           old.transitions + (IF major THEN 1 ELSE 0)
             ELSE new = old]_vars

\* A day whose second sample changes category with a change of exactly 3.0
\* degrees (not counted) and whose third changes category with a change of
\* 3.1 degrees (counted).
C1_Witness ==
    \E j \in 1..Len(daily_data) :
        /\ daily_data[j].samples =
             << <<230, "Clear">>, <<200, "Rain">>, <<231, "Clear">> >>
        /\ daily_data[j].transitions = 1

\* ---------------------------------------------------------------------- C6

\* The sequence without its element at position p.
RemoveAt(seq, p) == SubSeq(seq, 1, p - 1) \o SubSeq(seq, p + 1, Len(seq))

\* The aggregator after add_sample of each sample of a sequence in turn.
RECURSIVE AddAll(_, _)
AddAll(wd, samples) ==
    IF samples = <<>> THEN wd
    ELSE AddAll(add_sample(wd, samples[1][1], samples[1][2], 0, 0),
                Tail(samples))

\* The transitions count of a fresh aggregator fed a sequence of samples.
CountTransitions(samples) == AddAll(WeatherData(<<>>), samples).transitions

\* C6 as stated: the count of a day that holds a quiet sample equals the
\* count of the same samples without the quiet one.
C6_QuietInsertionInvariant ==
    \A j \in 1..Len(daily_data) :
        LET wd == daily_data[j]
        IN  \A p \in 2..Len(wd.samples) :
                Quiet(wd.samples[p], wd.samples[p - 1])
                => CountTransitions(RemoveAt(wd.samples, p)) = wd.transitions

\* C6, amended: adding a quiet sample never raises transitions: the count
\* right after the quiet sample is added equals the count right before.
C6_QuietSampleAddsNone ==
    [][\A j \in 1..Len(daily_data) :
         LET old == daily_data[j]
             new == daily_data'[j]
         IN  ( /\ Len(new.samples) = Len(old.samples) + 1
               /\ old.samples # <<>>
               /\ Quiet(Last(new.samples), Last(old.samples)) )
             => new.transitions = old.transitions]_vars

\* A quiet sample was added last to a day that already counts a transition
\* and whose first sample differs from it in category and by 3.1 degrees.
C6_Witness ==
    \E j \in 1..Len(daily_data) :
        /\ daily_data[j].samples =
             << <<200, "Clear">>, <<231, "Rain">>, <<231, "Rain">> >>
        /\ daily_data[j].transitions = 1

\* ---------------------------------------------------------------------- C2

\* The state of the loop run on a list from the state st, stopping at the
\* first forecast that raises.
RECURSIVE ReplayFrom(_, _)
ReplayFrom(st, fs) ==
    IF fs = <<>> THEN st
    ELSE LET r == ProcessOne(st.daily_data, st.max_humidity, fs[1], today_str)
         IN  IF r.raised # "none" THEN r ELSE ReplayFrom(r, Tail(fs))

\* The forecasts taken so far, those of the current day left out.
WithoutToday == LET Keep(f) == ~DatedToday(f) IN SelectSeq(forecasts, Keep)

\* The greatest humidity of the aggregated forecasts of a list, 0 if none.
RECURSIVE MaxHumidityOf(_)
MaxHumidityOf(fs) ==
    IF fs = <<>> THEN 0
    ELSE LET rest == MaxHumidityOf(Tail(fs))
         IN  IF Aggregated(fs[1]) /\ fs[1].main[1].humidity[1] > rest
             THEN fs[1].main[1].humidity[1] ELSE rest

\* C2: the forecasts dated today leave no trace: daily_data has no entry of
\* today's date, the aggregators and max_humidity are those the loop builds
\* from the list with the forecasts of today removed, and max_humidity is
\* the maximum over the aggregated (non-today) forecasts only.
C2_TodayExcluded ==
    /\ \A j \in 1..Len(daily_data) : daily_data[j].date # today_str
    /\ LET st == ReplayFrom([daily_data |-> <<>>, max_humidity |-> 0,
                             raised |-> "none"], WithoutToday)
       IN  /\ daily_data = st.daily_data
           /\ max_humidity = st.max_humidity
    /\ max_humidity = MaxHumidityOf(forecasts)

\* A finished run whose list holds a forecast of today with the highest
\* humidity and some rain, and a forecast of another day with humidity 40.
C2_Witness ==
    /\ pc = "done"
    /\ report # <<>>
    /\ max_humidity = 40
    /\ \E k \in 1..Len(forecasts) :
         /\ DatedToday(forecasts[k])
         /\ forecasts[k].main = <<[temp |-> <<200>>, humidity |-> <<90>>]>>
         /\ forecasts[k].rain = Amount(4)
    /\ \E j \in 1..Len(daily_data) : daily_data[j].rain_mm = 0

\* ---------------------------------------------------------------------- C3

\* C3 as stated: when fetch_data has returned False, nothing was ingested:
\* daily_data is empty and max_humidity is 0.
C3_FailedFetchIngestsNothing ==
    fetch_result = "false" => daily_data = <<>> /\ max_humidity = 0

\* ---------------------------------------------------------------------- C4

\* C4: no report is written unless fetch_data returned True on a fully
\* processed list, and then exactly one; a run whose fetch failed ends with
\* exit status 1 and no report; a run whose fetch succeeded ends with exit
\* status 0 and one report, that of the final state.
C4_ReportOnlyAfterSuccessfulFetch ==
    /\ reports_written <= 1
    /\ (reports_written > 0 \/ report # <<>>)
         => fetch_result = "true" /\ Len(forecasts) = n_forecasts
    /\ (pc = "done" /\ fetch_result # "true")
         => exit_status = <<1>> /\ reports_written = 0 /\ report = <<>>
    /\ (pc = "done" /\ fetch_result = "true")
         => /\ exit_status = <<0>>
            /\ reports_written = 1
            /\ report = <<BuildReport(daily_data, max_humidity,
                                      location_name, country)>>

\* A run that ended after fetch_data returned False with some forecasts
\* already aggregated.
C4_Witness ==
    /\ pc = "done"
    /\ fetch_result = "false"
    /\ exit_status = <<1>>
    /\ daily_data # <<>>
    /\ max_humidity = 90

\* ------------------------------------------------------------------ C5, C7

\* The sum of what the aggregated forecasts of a list contribute in rain
\* (kind "rain") or snow.
RECURSIVE TotalContribution(_, _)
TotalContribution(fs, kind) ==
    IF fs = <<>> THEN 0
    ELSE (IF Aggregated(fs[1])
          THEN Contribution(IF kind = "rain" THEN fs[1].rain ELSE fs[1].snow)
          ELSE 0)
         + TotalContribution(Tail(fs), kind)

\* The aggregated forecasts of a list whose local date is the given one.
OfDate(fs, date) ==
    LET Keep(f) == Has(f.dt) /\ DateStr(f.dt[1]) = date
    IN  SelectSeq(fs, Keep)

\* The sum of a field of the entries of forecast_details.
RECURSIVE SumDetails(_, _)
SumDetails(details, kind) ==
    IF details = <<>> THEN 0
    ELSE (IF kind = "rain" THEN details[1].rain_cumul_mm
          ELSE details[1].snow_cumul_mm)
         + SumDetails(Tail(details), kind)

\* C5 as stated: the period totals of the report equal the sums of the
\* daily values of forecast_details.
C5_TotalsEqualSumOfDetails ==
    report # <<>> =>
        /\ report[1].total_rain_period_mm =
             SumDetails(report[1].forecast_details, "rain")
        /\ report[1].total_snow_period_mm =
             SumDetails(report[1].forecast_details, "snow")

\* C5, amended: each period total is the exact sum of the aggregated
\* amounts rounded once to one decimal; it differs from the sum of the
\* rounded daily values by at most 0.05 mm per day plus 0.05 mm.
C5_TotalsRoundedOnce ==
    report # <<>> =>
        LET r == report[1]
            n == Len(r.forecast_details)
            rain == 10 * r.total_rain_period_mm
                    - 10 * SumDetails(r.forecast_details, "rain")
            snow == 10 * r.total_snow_period_mm
                    - 10 * SumDetails(r.forecast_details, "snow")
        IN  /\ r.total_rain_period_mm =
                 Round1(TotalContribution(forecasts, "rain"))
            /\ r.total_snow_period_mm =
                 Round1(TotalContribution(forecasts, "snow"))
            /\ Abs(rain) <= 5 * (n + 1)
            /\ Abs(snow) <= 5 * (n + 1)

\* A report of two days with 0.04 mm of rain each: the total is 0.1 and
\* both daily values are 0.0.
C5_Witness ==
    /\ report # <<>>
    /\ Len(report[1].forecast_details) = 2
    /\ report[1].total_rain_period_mm = 1
    /\ SumDetails(report[1].forecast_details, "rain") = 0

\* C7: each day's rain_mm and snow_mm are the exact sums of the amounts of
\* the aggregated forecasts of that day, a missing 'rain' or 'snow' key or
\* '3h' amount counting 0; and such a forecast does not make the run fail.
C7_ExactDailySums ==
    /\ \A j \in 1..Len(daily_data) :
         LET mine == OfDate(forecasts, daily_data[j].date)
         IN  /\ daily_data[j].rain_mm = TotalContribution(mine, "rain")
             /\ daily_data[j].snow_mm = TotalContribution(mine, "snow")
    /\ (Failed /\ forecasts # <<>>) => ~Aggregated(Last(forecasts))

\* A day of three forecasts, one without 'rain', one whose 'rain' lacks
\* '3h' and one with 0.04 mm, whose rain_mm is 0.04 (not yet rounded).
C7_Witness ==
    \E j \in 1..Len(daily_data) :
        LET mine == OfDate(forecasts, daily_data[j].date)
        IN  /\ Len(daily_data[j].samples) = 3
            /\ {mine[k].rain : k \in 1..Len(mine)} = {NoKey, No3h, Amount(4)}
            /\ daily_data[j].rain_mm = 4
            /\ daily_data[j].snow_mm = 12
            /\ ~Failed

\* ---------------------------------------------------------------------- C8

\* The local dates of the aggregated forecasts taken so far.
AggregatedDates ==
    {DateStr(forecasts[k].dt[1]) :
        k \in {i \in 1..Len(forecasts) : Aggregated(forecasts[i])}}

\* C8: forecast_details is strictly ascending by date_local and its dates
\* are exactly the distinct non-today dates of the list, one entry each.
C8_DetailsSortedOnePerDate ==
    report # <<>> =>
        LET d == report[1].forecast_details
        IN  /\ \A i \in 1..(Len(d) - 1) :
                 StrLess(d[i].date_local, d[i + 1].date_local)
            /\ {d[i].date_local : i \in 1..Len(d)} = AggregatedDates
            /\ Len(d) = Cardinality(AggregatedDates)

\* A report of three days whose forecasts arrived out of order, the latest
\* day first.
C8_Witness ==
    /\ report # <<>>
    /\ Len(forecasts) = 3
    /\ forecasts[1].dt = <<DtDay3>>
    /\ forecasts[2].dt = <<DtDay1>>
    /\ forecasts[3].dt = <<DtDay2>>
    /\ Len(report[1].forecast_details) = 3

\* A report of two days whose forecasts arrived interleaved: the later day,
\* the earlier day, the later day again.
C8_Interleaved ==
    /\ report # <<>>
    /\ Len(forecasts) = 3
    /\ forecasts[1].dt = <<DtDay2>>
    /\ forecasts[2].dt = <<DtDay1>>
    /\ forecasts[3].dt = <<DtDay2>>
    /\ Len(report[1].forecast_details) = 2

\* ---------------------------------------------------------------------- C9

\* Every forecast of the list was taken and each is dated today.
NothingAggregated ==
    /\ today_str # <<>>
    /\ Len(forecasts) = n_forecasts
    /\ \A k \in 1..Len(forecasts) : DatedToday(forecasts[k])

\* C9: a list that is empty or holds only forecasts of today is no failure:
\* fetch_data returns True, and main ends with exit status 0 and a report
\* with no details, zero totals and max_humidity_period 0.
C9_NoDataIsAValidReport ==
    (NothingAggregated /\ pc \in {"returned", "done"}) =>
        /\ fetch_result = "true"
        /\ pc = "done" =>
             /\ exit_status = <<0>>
             /\ report # <<>>
             /\ report[1].forecast_details = <<>>
             /\ report[1].total_rain_period_mm = 0
             /\ report[1].total_snow_period_mm = 0
             /\ report[1].max_humidity_period = 0

\* A finished run on three forecasts of today, with humidity 90 and rain.
C9_Witness ==
    /\ pc = "done"
    /\ NothingAggregated
    /\ Len(forecasts) = 3
    /\ \E k \in 1..3 :
         /\ forecasts[k].rain = Amount(4)
         /\ forecasts[k].main = <<[temp |-> <<200>>, humidity |-> <<90>>]>>

\* --------------------------------------------------------------------- C10

\* C10: a call of generate_report leaves daily_data, max_humidity,
\* location_name and country unchanged, so that the report a second call
\* would build from the state it leaves is the report it wrote.
C10_GenerateReportReadsOnly ==
    [][reports_written' # reports_written =>
         /\ UNCHANGED <<daily_data, max_humidity, location_name, country>>
         /\ report' = <<BuildReport(daily_data', max_humidity',
                                    location_name', country')>>]_vars

\* A report written from a day whose unrounded rain total is 0.04 mm.
C10_Witness ==
    /\ reports_written = 1
    /\ \E j \in 1..Len(daily_data) : daily_data[j].rain_mm = 4
    /\ Len(report[1].forecast_details) = 2

====
